---------------------------- MODULE Spec2Model ----------------------------
(***************************************************************************)
(* The Codex CLI streaming adapter (core/providers/llm/codex/codex.py),    *)
(* the abort-block registry (core/utils/llm_runtime.py), the status marker *)
(* (core/utils/llm_stream.py) and the abort handler                         *)
(* (core/handle/abortHandle.py).                                            *)
(*                                                                         *)
(* Text is a sequence of tokens (a token is a TLA+ string), so that strip, *)
(* join, startswith/endswith and the status prefix are computed.  A JSON   *)
(* value is a tagged record: Null, Str(text), Num(n), List(seq),           *)
(* Dict(seq of <<key, value>>), the pairs in insertion order.              *)
(***************************************************************************)
EXTENDS Integers, Sequences, FiniteSets, TLC

\* ---------------------------------------------------------------- bounds
\* respond calls made in one behaviour of SpecConc (they may overlap)
MaxCalls == 2
\* lines the child writes to its standard output, and to its standard error,
\* in Spec (one call, every kind of line)
MaxStdoutLines == 2
MaxStderrLines == 2
\* lines the children write to their standard outputs, and to their standard
\* errors, over all calls of SpecConc
ConcStdoutLines == 1
ConcStderrLines == 2
\* abort messages the connection receives
MaxAborts == 2
\* largest reading of time.monotonic()
MaxTime == 1

Calls == 1..MaxCalls

\* session ids handed to response(); "" is the falsy session id
SessionIds == {"", "s1"}

NoneVal == "None"

\* ------------------------------------------------------------ JSON values
Null == [t |-> "null"]
Str(s) == [t |-> "str", v |-> s]
Num(n) == [t |-> "num", v |-> n]
List(xs) == [t |-> "list", v |-> xs]
Dict(ps) == [t |-> "dict", v |-> ps]

IsStr(x) == x.t = "str"
IsList(x) == x.t = "list"
IsDict(x) == x.t = "dict"

\* Python truthiness of a value: None, "", 0, [] and {} are falsy
Truthy(x) ==
    CASE x.t = "null" -> FALSE
      [] x.t = "str" -> x.v # <<>>
      [] x.t = "num" -> x.v # 0
      [] x.t = "list" -> x.v # <<>>
      [] x.t = "dict" -> x.v # <<>>

HasKey(d, k) == \E i \in 1..Len(d.v) : d.v[i][1] = k

\* dict.get(k): the value of the last pair with key k, None when absent
Get(d, k) ==
    IF HasKey(d, k)
    THEN d.v[CHOOSE i \in 1..Len(d.v) :
                 d.v[i][1] = k /\ \A j \in (i + 1)..Len(d.v) : d.v[j][1] # k][2]
    ELSE Null

\* dict.get(k, "")
GetOr(d, k, dflt) == IF HasKey(d, k) THEN Get(d, k) ELSE dflt

\* Python's `a or b`
Or(a, b) == IF Truthy(a) THEN a ELSE b

\* ------------------------------------------------------------------- text
WhiteSpace == {" ", "\n"}

RECURSIVE LStrip(_)
LStrip(s) == IF s # <<>> /\ Head(s) \in WhiteSpace THEN LStrip(Tail(s)) ELSE s

RECURSIVE RStrip(_)
RStrip(s) ==
    IF s # <<>> /\ s[Len(s)] \in WhiteSpace THEN RStrip(SubSeq(s, 1, Len(s) - 1)) ELSE s

\* str.strip()
Strip(s) == RStrip(LStrip(s))

StartsWith(s, tok) == s # <<>> /\ Head(s) = tok
EndsWith(s, tok) == s # <<>> /\ s[Len(s)] = tok

\* "\n".join(chunks)
RECURSIVE JoinNL(_)
JoinNL(chunks) ==
    IF chunks = <<>> THEN <<>>
    ELSE IF Len(chunks) = 1 THEN chunks[1]
    ELSE chunks[1] \o <<"\n">> \o JoinNL(Tail(chunks))

\* tokens that have the shape of a UUID (8-4-4-4-12 hex groups)
UuidTokens == {"3fa85f64-5717-4562-b3fc-2c963f66afa6", "0b1c2d3e-0000-4000-8000-aaaaaaaaaaaa"}
U1 == "3fa85f64-5717-4562-b3fc-2c963f66afa6"
U2 == "0b1c2d3e-0000-4000-8000-aaaaaaaaaaaa"

\* ---------------------------------------------------------- llm_stream.py
STATUS_PREFIX == "[[status]]"

wrap_status(text) == IF text = <<>> THEN <<>> ELSE <<STATUS_PREFIX>> \o text

\* ------------------------------------------------------------ Event Parser
\* A line of child output.  json = TRUE: the payload left after strip() and
\* after removing a leading "data:" decodes, and `body` is what json.loads
\* gives (Null for the payload null).  json = FALSE: it does not decode, and
\* `body` is Str(the text of the line).  None, the result for a blank line,
\* is Null.
Line(json, body) == [json |-> json, body |-> body]

_parse_event(line) ==
    IF line.json THEN line.body
    ELSE IF Strip(line.body.v) = <<>> THEN Null
    ELSE Str(Strip(line.body.v))

\* ------------------------------------------------------- Session-Id search
RECURSIVE FirstUuid(_)
FirstUuid(s) ==
    IF s = <<>> THEN NoneVal
    ELSE IF Head(s) \in UuidTokens THEN Head(s)
    ELSE FirstUuid(Tail(s))

_find_uuid(value) ==
    IF ~Truthy(value) THEN NoneVal
    ELSE IF IsStr(value) THEN FirstUuid(value.v)
    ELSE NoneVal

\* json.dumps(value) as tokens: keys and values in insertion order
RECURSIVE Dumps(_)
RECURSIVE DumpsSeq(_)
RECURSIVE DumpsPairs(_)
Dumps(x) ==
    CASE x.t = "null" -> <<"null">>
      [] x.t = "str" -> x.v
      [] x.t = "num" -> <<"0">>
      [] x.t = "list" -> DumpsSeq(x.v)
      [] x.t = "dict" -> DumpsPairs(x.v)
DumpsSeq(xs) == IF xs = <<>> THEN <<>> ELSE Dumps(Head(xs)) \o DumpsSeq(Tail(xs))
DumpsPairs(ps) ==
    IF ps = <<>> THEN <<>>
    ELSE <<Head(ps)[1]>> \o Dumps(Head(ps)[2]) \o DumpsPairs(Tail(ps))

SessionKeys ==
    <<"session_id", "sessionId", "conversation_id", "conversationId", "session",
      "conversation", "id">>

RECURSIVE _extract_session_id(_)
RECURSIVE ExtractByKeys(_, _)
RECURSIVE ExtractFromList(_)
_extract_session_id(event) ==
    IF ~Truthy(event) THEN NoneVal
    ELSE IF IsStr(event) THEN _find_uuid(event)
    ELSE IF IsDict(event) THEN
        LET c == ExtractByKeys(event, SessionKeys)
        IN IF c # NoneVal THEN c ELSE _find_uuid(Str(Dumps(event)))
    ELSE IF IsList(event) THEN ExtractFromList(event.v)
    ELSE NoneVal
ExtractByKeys(event, keys) ==
    IF keys = <<>> THEN NoneVal
    ELSE LET c == _extract_session_id(Get(event, Head(keys)))
         IN IF c # NoneVal THEN c ELSE ExtractByKeys(event, Tail(keys))
ExtractFromList(xs) ==
    IF xs = <<>> THEN NoneVal
    ELSE LET c == _extract_session_id(Head(xs))
         IN IF c # NoneVal THEN c ELSE ExtractFromList(Tail(xs))

\* ------------------------------------------------------------ Text Extractor
TextKeys ==
    <<"text", "content", "message", "output", "delta", "data", "response", "result",
      "final">>

RECURSIVE _collect_text(_)
RECURSIVE CollectKeys(_, _)
RECURSIVE CollectList(_)
_collect_text(value) ==
    CASE value.t = "null" -> <<>>
      [] value.t = "str" -> IF value.v # <<>> THEN <<value.v>> ELSE <<>>
      [] value.t = "list" -> CollectList(value.v)
      [] value.t = "dict" -> CollectKeys(value, TextKeys)
      [] OTHER -> <<>>
CollectKeys(d, keys) ==
    IF keys = <<>> THEN <<>>
    ELSE (IF HasKey(d, Head(keys)) THEN _collect_text(Get(d, Head(keys))) ELSE <<>>)
         \o CollectKeys(d, Tail(keys))
CollectList(xs) ==
    IF xs = <<>> THEN <<>> ELSE _collect_text(Head(xs)) \o CollectList(Tail(xs))

MessageItemTypes == {<<"agent_message">>, <<"assistant_message">>, <<"message">>}

\* event.get("item") or event.get("delta") or {}
EventItem(event) == Or(Or(Get(event, "item"), Get(event, "delta")), Dict(<<>>))

_extract_codex_item_text(event) ==
    IF ~IsDict(event) THEN <<>>
    ELSE LET event_type == GetOr(event, "type", Str(<<>>))
         IN IF ~(IsStr(event_type) /\ StartsWith(event_type.v, "item.")) THEN <<>>
            ELSE LET item == EventItem(event)
                 IN IF ~IsDict(item) THEN <<>>
                    ELSE LET item_type == GetOr(item, "type", Str(<<>>))
                         IN IF ~(IsStr(item_type) /\ item_type.v \in MessageItemTypes)
                            THEN <<>>
                            ELSE _collect_text(item)

_extract_text_chunks(event) ==
    IF event.t = "null" THEN <<>>
    ELSE IF IsStr(event) THEN <<event.v>>
    ELSE IF ~IsDict(event) THEN <<>>
    ELSE LET codex_items == _extract_codex_item_text(event)
             event_type == Get(event, "type")
         IN IF codex_items # <<>> THEN codex_items
            ELSE IF Truthy(event_type) THEN
                IF EndsWith(event_type.v, ".delta")
                THEN _collect_text(Or(Get(event, "delta"), Get(event, "text")))
                ELSE IF EndsWith(event_type.v, ".error")
                THEN _collect_text(Or(Get(event, "error"), Get(event, "message")))
                ELSE _collect_text(event)
            ELSE _collect_text(event)

_event_to_text(event) ==
    LET chunks == _extract_text_chunks(event)
    IN IF chunks = <<>> THEN <<>> ELSE Strip(JoinNL(chunks))

\* ------------------------------------------------------------------ state
VARIABLES
    cfg,                    \* the fields __init__ sets from the configuration
    call,                   \* per respond call: the frame of response()
    _abort_blocked,         \* llm_runtime._abort_blocked: the keys it holds (each maps to True)
    _session_map,           \* self._session_map: session id -> resume handle
    _prompt_mode_state,     \* self._prompt_mode_state: the keys that map to True
    _warned_missing_resume, \* self._warned_missing_resume
    conn,                   \* the connection handleAbortMessage acts on
    env,                    \* what is left of the bounds: calls to start, lines to write
    reg,                    \* the threads that call llm_runtime, and what they did last
    mcp                     \* the MCP adapter: self._client, self._client_lock, its callers

vars ==
    <<cfg, call, _abort_blocked, _session_map, _prompt_mode_state,
      _warned_missing_resume, conn, env, reg, mcp>>

\* ------------------------------------------------------------ llm_runtime
\* block_abort that sets nothing
block_abort_sets_nothing(blocked, session_id) == blocked

block_abort(blocked, session_id) ==
    IF session_id = "" THEN blocked ELSE blocked \cup {session_id}

\* unblock_abort that leaves the key in place
unblock_abort_keeps_key(blocked, session_id) == blocked

unblock_abort(blocked, session_id) ==
    IF session_id = "" THEN blocked ELSE blocked \ {session_id}

\* is_abort_blocked that never reports a block
is_abort_blocked_never(session_id) == FALSE

is_abort_blocked(session_id) ==
    IF session_id = "" THEN FALSE ELSE session_id \in _abort_blocked

\* clear_session that empties the registry
clear_session_clears_all(blocked, session_id) == {}

clear_session(blocked, session_id) == unblock_abort(blocked, session_id)

\* ----------------------------------------------------- stderr summarizer
\* core/providers/llm/codex/stderr_summary.py is not among the sources: the
\* summarizer is an external collaborator that gives a short message, gives
\* nothing, or fails (spec 4.7, 7(g)).
summarize(stderr_text) ==
    {[raises |-> TRUE, summary |-> <<>>],
     [raises |-> FALSE, summary |-> <<>>],
     [raises |-> FALSE, summary |-> <<" ">>],
     [raises |-> FALSE, summary |-> <<"disk full", " ">>],
     [raises |-> FALSE, summary |-> <<"retrying">>]}

\* ------------------------------------------------------------ the children
L_hel == Line(TRUE, Dict(<< <<"type", Str(<<"x", ".delta">>)>>, <<"delta", Str(<<"Hel">>)>> >>))
L_msg ==
    Line(TRUE, Dict(<< <<"type", Str(<<"item.", "completed">>)>>,
                       <<"session_id", Str(<<U1>>)>>,
                       <<"item", Dict(<< <<"type", Str(<<"agent_message">>)>>,
                                         <<"text", Str(<<"lo">>)>>,
                                         <<"content", List(<<Str(<<>>), Str(<<"!">>)>>)>> >>)>> >>))
L_cmd ==
    Line(TRUE, Dict(<< <<"type", Str(<<"item.", "completed">>)>>,
                       <<"item", Dict(<< <<"type", Str(<<"command_execution">>)>>,
                                         <<"command", Str(<<"ls">>)>>,
                                         <<"status", Str(<<"completed", " ">>)>>,
                                         <<"exit_code", Num(0)>>,
                                         <<"aggregated_output", Str(<<"a", "b", "\n">>)>> >>)>> >>))
L_blank == Line(FALSE, Str(<<" ", "\n">>))
E_disk == Line(FALSE, Str(<<"No space left on device", "\n">>))
E_sess == Line(FALSE, Str(<<"session: ", U2, "\n">>))

StdoutLines == {L_hel, L_msg, L_cmd, L_blank}
StderrLines == {E_disk, E_sess, L_blank}
\* the lines the children of SpecConc write
FewStdoutLines == {L_hel}
FewStderrLines == {E_disk}

Streams == {"stdout", "stderr"}

\* proc.wait()
ExitCodes == {0, 2}

\* ---------------------------------------------------------- configuration
Config(pm, rs, se, mi, de, dt) ==
    [prompt_mode |-> pm, resume_session |-> rs, stderr_summary_enabled |-> se,
     stderr_summary_min_interval |-> mi, debug_events |-> de,
     debug_event_target |-> dt, debug_command_output |-> de,
     debug_command_output_max_chars |-> 2,
     command |-> "codex", args |-> <<"exec", "--json", "-">>, prompt_via_stdin |-> TRUE]

Configs ==
    {Config("first_full_then_last", TRUE, TRUE, 0, FALSE, "log"),
     Config("first_full_then_last", FALSE, TRUE, 1, TRUE, "status"),
     Config("full_dialogue", FALSE, FALSE, 0, TRUE, "log")}

\* ------------------------------------------------------------- fragments
\* What a yield hands to the caller: the text, and which yield of response()
\* it is (y344 y348 y426 y432 y444 y449, by source line).  name and idx say
\* which line of which stream it comes from (0: none).
Frag(site, text, name, idx) == [site |-> site, text |-> text, name |-> name, idx |-> idx]

ContentSites == {"y444"}
StatusSites == {"y426", "y432"}
ErrorSites == {"y344", "y348", "y449"}
TrySites == {"y426", "y432", "y444", "y449"}

\* ----------------------------------------------------- _format_debug_event
_format_debug_event(event) ==
    IF ~cfg.debug_events \/ ~IsDict(event) THEN <<>>
    ELSE LET event_type == GetOr(event, "type", Str(<<>>))
         IN IF ~(IsStr(event_type) /\ StartsWith(event_type.v, "item.")) THEN <<>>
            ELSE LET item == EventItem(event)
                 IN IF ~IsDict(item) THEN <<>>
                    ELSE LET item_type == GetOr(item, "type", Str(<<>>))
                             text == Get(item, "text")
                             command == Or(Get(item, "command"), Str(<<>>))
                             status == Strip(Or(Get(item, "status"), Str(<<>>)).v)
                             exit_code == Get(item, "exit_code")
                             exit_text == IF exit_code.t = "null" THEN <<>>
                                          ELSE <<" exit=", ToString(exit_code.v)>>
                             prefix == Strip(<<"[codex.command]", " ">> \o status \o exit_text)
                             first == IF Truthy(command) THEN prefix \o <<": ">> \o command.v
                                      ELSE prefix
                             output == Strip(Or(Get(item, "aggregated_output"), Str(<<>>)).v)
                             max == cfg.debug_command_output_max_chars
                             shown == IF max > 0 /\ Len(output) > max
                                      THEN SubSeq(output, 1, max) \o <<"...(truncated)">>
                                      ELSE output
                         IN IF item_type = Str(<<"reasoning">>)
                            THEN IF Truthy(text)
                                 THEN << <<"[codex.reasoning] ">> \o Strip(text.v) >>
                                 ELSE <<>>
                            ELSE IF item_type # Str(<<"command_execution">>) THEN <<>>
                            ELSE IF cfg.debug_command_output /\ output # <<>>
                            THEN <<first, <<"[codex.command.output] ">> \o shown>>
                            ELSE <<first>>

\* ------------------------------------------------ prompt mode, resume handle
\* <<the effective mode, the new value of self._warned_missing_resume>>
\* a resolution that never looks at the prompt-mode state
_get_effective_prompt_mode_first_turn(session_id) ==
    <<IF cfg.prompt_mode = "first_full_then_last" THEN "full_dialogue" ELSE cfg.prompt_mode,
      _warned_missing_resume>>

_get_effective_prompt_mode(session_id) ==
    IF cfg.prompt_mode # "first_full_then_last"
    THEN <<cfg.prompt_mode, _warned_missing_resume>>
    ELSE LET warned == _warned_missing_resume \/ ~cfg.resume_session
         IN IF session_id = "" THEN <<"full_dialogue", warned>>
            ELSE IF session_id \notin _prompt_mode_state THEN <<"full_dialogue", warned>>
            ELSE <<"last_user", warned>>

_mark_prompt_sent(state, session_id) ==
    IF cfg.prompt_mode # "first_full_then_last" THEN state
    ELSE IF session_id = "" THEN state
    ELSE state \cup {session_id}

\* a store that keeps the map as it is
_store_session_id_keeps_map(map, session_id, event) == map

_store_session_id(map, session_id, event) ==
    IF session_id = "" \/ ~Truthy(event) THEN map
    ELSE LET candidate == _extract_session_id(event)
         IN IF candidate = NoneVal THEN map
            ELSE [map EXCEPT ![session_id] = candidate]

\* a lookup that finds no handle
_get_resume_id_finds_none(session_id) == NoneVal

_get_resume_id(session_id) ==
    IF session_id = "" THEN NoneVal ELSE _session_map[session_id]

\* -------------------------------------------------------- command builder
Contains(args, tok) == \E i \in 1..Len(args) : args[i] = tok

\* lines 70-73: the tokens _filter_args drops
Filtered(arg) == arg \in {"exec", "resume", "e"} \/ arg = "-"

Kept(arg) == ~Filtered(arg)

\* a filter that keeps every token
_filter_args_keeps_all(args) == args

_filter_args(args) == SelectSeq(args, Kept)

\* lines 81-84 and 89-92: the output flag and the stdin marker are appended
\* when the arguments do not hold them
EnsureFlags(args) ==
    LET with_json == IF ~Contains(args, "--json") THEN Append(args, "--json") ELSE args
    IN IF cfg.prompt_via_stdin /\ ~Contains(with_json, "-")
       THEN Append(with_json, "-")
       ELSE with_json

_build_command(resume_id) ==
    IF resume_id \notin {NoneVal, ""}
    THEN <<cfg.command, "exec", "resume", resume_id>> \o EnsureFlags(_filter_args(cfg.args))
    ELSE LET args == IF ~(Contains(cfg.args, "exec") \/ Contains(cfg.args, "e"))
                     THEN <<"exec">> \o cfg.args
                     ELSE cfg.args
         IN <<cfg.command>> \o EnsureFlags(args)

\* _build_prompt gives the empty string (mode last_user, no user message) or a text
Prompts == {"", "User: hi"}

\* lines 323-325: the command Popen is given
Command(resume_id, prompt) ==
    IF ~cfg.prompt_via_stdin /\ prompt # ""
    THEN Append(_build_command(resume_id), prompt)
    ELSE _build_command(resume_id)

\* ------------------------------------------------- callers of llm_runtime
MaxThreads == 2
MaxOps == 4

RegThreads == 1..MaxThreads

RegOps == {"block_abort", "unblock_abort", "is_abort_blocked", "clear_session"}

RegSessions == {"", "s1", "s2"}

InitReg ==
    [thread |-> [t \in RegThreads |->
                    [pc |-> "idle", op |-> "", session_id |-> "", result |-> FALSE]],
     last |-> [s \in RegSessions |-> ""],
     left |-> 0]

\* ------------------------------------------------------- the MCP adapter
MaxMcpCalls == 3

McpCalls == 1..MaxMcpCalls

\* codex_mcp_server.py lines 58-60; clients are numbered from 1, 0 is None
InitMcp ==
    [_client |-> 0, _client_lock |-> 0, _loop_runner |-> FALSE,
     task |-> [t \in McpCalls |-> [pc |-> "idle", client |-> 0, got |-> 0]],
     initializing |-> {}, initialized |-> {}, created |-> 0]

\* ------------------------------------------------------------------- Init
InitCall ==
    [pc |-> "idle", session_id |-> "", effective_prompt_mode |-> NoneVal,
     resume_id |-> NoneVal, command |-> <<>>, spawned |-> FALSE,
     reader |-> [stdout |-> "none", stderr |-> "none"], queue |-> <<>>,
     stdout_done |-> FALSE, stderr_done |-> FALSE, stdout_started |-> FALSE,
     abort_blocked |-> FALSE, last_summary |-> <<>>, last_summary_time |-> 0,
     summary |-> <<>>, now |-> 0, idx |-> 0, pend |-> <<>>, exit_code |-> -1,
     out |-> <<>>, read |-> [stdout |-> <<>>, stderr |-> <<>>],
     raised |-> FALSE, closed |-> FALSE, n_block |-> 0, late |-> 0, overlapped |-> FALSE,
     warnings |-> 0]

InitConn ==
    [session_id |-> "s1", pc |-> "idle", client_abort |-> FALSE, clear_queues |-> 0,
     sent |-> 0, clearSpeakStatus |-> 0, aborts |-> 0, refused |-> 0]

InitState ==
    /\ call = [c \in Calls |-> InitCall]
    /\ _abort_blocked = {}
    /\ _session_map = [s \in SessionIds \ {""} |-> NoneVal]
    /\ _prompt_mode_state = {}
    /\ _warned_missing_resume = FALSE
    /\ conn = InitConn

Init ==
    /\ InitState
    /\ reg = InitReg
    /\ mcp = InitMcp
    /\ cfg \in Configs
    /\ env = [calls |-> 1, overlap |-> FALSE, clock |-> MaxTime,
              lines |-> [stdout |-> StdoutLines, stderr |-> StderrLines],
              left |-> [stdout |-> MaxStdoutLines, stderr |-> MaxStderrLines]]

\* ------------------------------------------------------ response(): start
\* a call is in flight from its first step to its end
InFlight(c) == call[c].pc \notin {"idle", "done"}

\* some call in flight is for this session
Shared(session_id) == \E d \in Calls : InFlight(d) /\ call[d].session_id = session_id

\* lines 320-323: resolve the mode and look up the resume handle
Resolve(c) ==
    /\ call[c].pc = "idle"
    /\ env.calls > 0
    /\ \A d \in Calls : d < c => call[d].pc # "idle"
    /\ env.overlap \/ \A d \in Calls : call[d].pc \in {"idle", "done"}
    /\ env' = [env EXCEPT !.calls = @ - 1]
    /\ \E session_id \in SessionIds, prompt \in Prompts :
          LET m == _get_effective_prompt_mode(session_id)
              resume_id == IF cfg.resume_session THEN _get_resume_id(session_id)
                           ELSE NoneVal
          IN /\ _warned_missing_resume' = m[2]
             /\ call' = [d \in Calls |->
                    IF d = c
                    THEN [call[c] EXCEPT !.pc = "popen", !.session_id = session_id,
                                         !.effective_prompt_mode = m[1],
                                         !.resume_id = resume_id,
                                         !.command = Command(resume_id, prompt),
                                         !.overlapped = Shared(session_id),
                                         !.warnings = IF m[2] # _warned_missing_resume
                                                      THEN 1 ELSE 0]
                    ELSE IF InFlight(d) /\ call[d].session_id = session_id
                    THEN [call[d] EXCEPT !.overlapped = TRUE]
                    ELSE call[d]]
    /\ UNCHANGED <<cfg, reg, mcp, _abort_blocked, _session_map, _prompt_mode_state, conn>>

SpawnResults == {"ok", "FileNotFoundError", "Exception"}

\* the prompt is marked as sent before the child is known to have started
PromptStateBeforePopen(f, r) ==
    IF f.effective_prompt_mode = "full_dialogue"
    THEN _mark_prompt_sent(_prompt_mode_state, f.session_id)
    ELSE _prompt_mode_state

\* lines 342-351: self._prompt_mode_state after Popen gave r
PromptStateAfterPopen(f, r) ==
    IF r = "ok" /\ f.effective_prompt_mode = "full_dialogue"
    THEN _mark_prompt_sent(_prompt_mode_state, f.session_id)
    ELSE _prompt_mode_state

\* lines 330-380: subprocess.Popen, then the readers are started
Popen(c) ==
    LET f == call[c]
    IN /\ f.pc = "popen"
       /\ \E r \in SpawnResults :
             /\ _prompt_mode_state' = PromptStateAfterPopen(f, r)
             /\ call' = [call EXCEPT ![c] =
                    IF r = "FileNotFoundError"
                    THEN [f EXCEPT !.pc = "yield",
                                   !.out = <<Frag("y344", <<"[Codex CLI error: command not found]">>, "", 0)>>]
                    ELSE IF r = "Exception"
                    THEN [f EXCEPT !.pc = "yield",
                                   !.out = <<Frag("y348", <<"[Codex CLI error: failed to start]">>, "", 0)>>]
                    ELSE [f EXCEPT !.pc = "loop", !.spawned = TRUE,
                                   !.reader = [stdout |-> "run", stderr |-> "run"]]]
       /\ UNCHANGED <<cfg, reg, mcp, _abort_blocked, _session_map, _warned_missing_resume, conn, env>>

\* ------------------------------------------------------ the reader threads
\* a put at the head of the queue
QueuePutFront(queue, item) == <<item>> \o queue

\* queue.put(item), lines 364-365
QueuePut(queue, item) == Append(queue, item)

\* lines 362-365: for line in iter(stream.readline, ""): queue.put((name, line))
ReaderPut(c, name) ==
    LET f == call[c]
    IN /\ f.reader[name] = "run"
       /\ f.pc # "done"
       /\ env.left[name] > 0
       /\ \E line \in env.lines[name] :
             call' = [call EXCEPT ![c] =
                 [f EXCEPT !.queue = QueuePut(@, [name |-> name, eof |-> FALSE, line |-> line,
                                                  idx |-> Len(f.read[name]) + 1]),
                           !.read[name] = Append(@, line)]]
       /\ env' = [env EXCEPT !.left[name] = @ - 1]
       /\ UNCHANGED <<cfg, reg, mcp, _abort_blocked, _session_map, _prompt_mode_state,
                      _warned_missing_resume, conn>>

\* line 365: queue.put((name, None)) when the stream closes
ReaderEof(c, name) ==
    LET f == call[c]
    IN /\ f.reader[name] = "run"
       /\ f.pc # "done"
       /\ call' = [call EXCEPT ![c] =
              [f EXCEPT !.queue = QueuePut(@, [name |-> name, eof |-> TRUE, line |-> L_blank,
                                               idx |-> 0]),
                        !.reader[name] = "done"]]
       /\ UNCHANGED <<cfg, reg, mcp, _abort_blocked, _session_map, _prompt_mode_state,
                      _warned_missing_resume, conn, env>>

\* ------------------------------------------------- response(): the finally
\* lines 450-454: what is left of the frame, and of the registry, after the
\* finally block (the readers are joined with a timeout; the queue is dropped
\* with the frame)
FinallyFrame(f) == [f EXCEPT !.pc = "done", !.pend = <<>>, !.queue = <<>>]

\* a finally block that leaves the registry as it is
FinallyKeepsBlock(f) == _abort_blocked

FinallyBlocked(f) ==
    IF f.abort_blocked THEN unblock_abort(_abort_blocked, f.session_id) ELSE _abort_blocked

\* -------------------------------------------------- response(): the loop
NonEmpty(chunk) == chunk # <<>>

\* lines 429-444: the fragments a line that is not a stderr line makes the
\* loop yield, in order
LineFragments(event, name, idx) ==
    LET debug == _format_debug_event(event)
        chunks == SelectSeq(_extract_text_chunks(event), NonEmpty)
    IN (IF cfg.debug_event_target = "status"
        THEN [i \in 1..Len(debug) |-> Frag("y432", wrap_status(debug[i]), name, idx)]
        ELSE <<>>)
       \o [i \in 1..Len(chunks) |-> Frag("y444", chunks[i], name, idx)]

\* lines 401-420: the gate's decision for a summarizer result o read at `now`:
\* TRUE when the summary is surfaced
Surfaced(f, o, now) ==
    /\ o.summary # <<>>
    /\ Strip(o.summary) # <<>>
    /\ ~(cfg.stderr_summary_min_interval > 0
         /\ now - f.last_summary_time < cfg.stderr_summary_min_interval)
    /\ Strip(o.summary) # f.last_summary

\* a gate that stays open once content has started
GateIgnoresContent(f) == ~cfg.stderr_summary_enabled

\* line 402: the stderr line is dropped unread
GateClosed(f) == f.stdout_started \/ ~cfg.stderr_summary_enabled

\* lines 401-427 up to the decision, for a stderr line
StderrGate(c, f, event, idx) ==
    IF GateClosed(f) \/ _event_to_text(event) = <<>>
    THEN /\ call' = [call EXCEPT ![c] = f]
         /\ UNCHANGED _abort_blocked
    ELSE \E o \in summarize(_event_to_text(event)), now \in f.last_summary_time..env.clock :
            IF o.raises
            THEN /\ call' = [call EXCEPT ![c] = [FinallyFrame(f) EXCEPT !.raised = TRUE]]
                 /\ _abort_blocked' = FinallyBlocked(f)
            ELSE IF Surfaced(f, o, now)
            THEN /\ call' = [call EXCEPT ![c] =
                        [f EXCEPT !.pc = "l421", !.summary = Strip(o.summary),
                                  !.now = now, !.idx = idx]]
                 /\ UNCHANGED _abort_blocked
            ELSE /\ call' = [call EXCEPT ![c] = f]
                 /\ UNCHANGED _abort_blocked

\* lines 383-444: queue.get gives an item; the loop body runs to its first
\* yield, to the block_abort call, or round to the next queue.get
GetItem(c) ==
    LET f == call[c]
    IN /\ f.pc = "loop"
       /\ ~(f.stdout_done /\ f.stderr_done)
       /\ f.queue # <<>>
       /\ LET item == Head(f.queue)
              f1 == [f EXCEPT !.queue = Tail(f.queue)]
              event == _parse_event(item.line)
          IN IF item.eof
             THEN /\ call' = [call EXCEPT ![c] =
                         IF item.name = "stdout"
                         THEN [f1 EXCEPT !.stdout_done = TRUE]
                         ELSE [f1 EXCEPT !.stderr_done = TRUE]]
                  /\ UNCHANGED <<_abort_blocked, _session_map>>
             ELSE /\ _session_map' =
                         IF event.t # "null"
                         THEN _store_session_id(_session_map, f.session_id, event)
                         ELSE _session_map
                  /\ IF item.name = "stderr"
                     THEN StderrGate(c, [f1 EXCEPT !.late = IF f.stdout_started THEN 1 ELSE @],
                                     event, item.idx)
                     ELSE LET pend == LineFragments(event, item.name, item.idx)
                          IN /\ call' = [call EXCEPT ![c] =
                                    [f1 EXCEPT !.pend = pend,
                                               !.pc = IF pend = <<>> THEN "loop" ELSE "emit"]]
                             /\ UNCHANGED _abort_blocked
       /\ UNCHANGED <<cfg, reg, mcp, _prompt_mode_state, _warned_missing_resume, conn, env>>

\* lines 421-425: block_abort, then the summary is recorded
Block(c) ==
    LET f == call[c]
    IN /\ f.pc = "l421"
       /\ _abort_blocked' =
              IF ~f.abort_blocked THEN block_abort(_abort_blocked, f.session_id)
              ELSE _abort_blocked
       /\ call' = [call EXCEPT ![c] =
              [f EXCEPT !.pc = "emit", !.abort_blocked = TRUE,
                        !.n_block = IF f.abort_blocked THEN @ ELSE @ + 1,
                        !.last_summary = f.summary, !.last_summary_time = f.now,
                        !.pend = <<Frag("y426", wrap_status(f.summary), "stderr", f.idx)>>,
                        !.summary = <<>>, !.now = 0, !.idx = 0]]
       /\ UNCHANGED <<cfg, reg, mcp, _session_map, _prompt_mode_state, _warned_missing_resume,
                      conn, env>>

\* lines 426, 432, 436-444: the next fragment is yielded; the first content
\* chunk sets stdout_started and lifts the block
Emit(c) ==
    LET f == call[c]
        fr == Head(f.pend)
        first == fr.site = "y444" /\ ~f.stdout_started
    IN /\ f.pc = "emit"
       /\ _abort_blocked' =
              IF first /\ f.abort_blocked THEN unblock_abort(_abort_blocked, f.session_id)
              ELSE _abort_blocked
       /\ call' = [call EXCEPT ![c] =
              [f EXCEPT !.pc = "yield", !.pend = Tail(f.pend), !.out = Append(@, fr),
                        !.stdout_started = @ \/ fr.site = "y444",
                        !.abort_blocked = IF first THEN FALSE ELSE @]]
       /\ UNCHANGED <<cfg, reg, mcp, _session_map, _prompt_mode_state, _warned_missing_resume,
                      conn, env>>

LastSite(f) == f.out[Len(f.out)].site

\* the caller asks for the next fragment: the generator goes on after its yield
Resume(c) ==
    LET f == call[c]
    IN /\ f.pc = "yield"
       /\ IF LastSite(f) \in {"y344", "y348"}
          THEN /\ call' = [call EXCEPT ![c] = [f EXCEPT !.pc = "done"]]
               /\ UNCHANGED _abort_blocked
          ELSE IF LastSite(f) = "y449"
          THEN /\ call' = [call EXCEPT ![c] = FinallyFrame(f)]
               /\ _abort_blocked' = FinallyBlocked(f)
          ELSE /\ call' = [call EXCEPT ![c] =
                      [f EXCEPT !.pc = IF f.pend # <<>> THEN "emit" ELSE "loop"]]
               /\ UNCHANGED _abort_blocked
       /\ UNCHANGED <<cfg, reg, mcp, _session_map, _prompt_mode_state, _warned_missing_resume,
                      conn, env>>

\* the caller closes the sequence at a yield: GeneratorExit is raised there
Close(c) ==
    LET f == call[c]
    IN /\ f.pc = "yield"
       /\ IF LastSite(f) \in TrySites
          THEN /\ call' = [call EXCEPT ![c] = [FinallyFrame(f) EXCEPT !.closed = TRUE]]
               /\ _abort_blocked' = FinallyBlocked(f)
          ELSE /\ call' = [call EXCEPT ![c] = [f EXCEPT !.pc = "done", !.closed = TRUE]]
               /\ UNCHANGED _abort_blocked
       /\ UNCHANGED <<cfg, reg, mcp, _session_map, _prompt_mode_state, _warned_missing_resume,
                      conn, env>>

ExitFragment(exit_code) ==
    Frag("y449", <<"[Codex CLI error: exit code ", ToString(exit_code), "]">>, "", 0)

\* every non-zero exit status is reported
ReportsEveryExit(exit_code, stdout_started) == exit_code # 0

\* line 447: the exit status is reported
ReportsExit(exit_code, stdout_started) == exit_code # 0 /\ ~stdout_started

\* lines 446-449: both streams have ended; proc.wait() gives the exit status
Finish(c) ==
    LET f == call[c]
    IN /\ f.pc = "loop"
       /\ f.stdout_done /\ f.stderr_done
       /\ \E exit_code \in ExitCodes :
             IF ReportsExit(exit_code, f.stdout_started)
             THEN /\ call' = [call EXCEPT ![c] =
                         [f EXCEPT !.pc = "yield", !.exit_code = exit_code,
                                   !.out = Append(@, ExitFragment(exit_code))]]
                  /\ UNCHANGED _abort_blocked
             ELSE /\ call' = [call EXCEPT ![c] =
                         [FinallyFrame(f) EXCEPT !.exit_code = exit_code]]
                  /\ _abort_blocked' = FinallyBlocked(f)
       /\ UNCHANGED <<cfg, reg, mcp, _session_map, _prompt_mode_state, _warned_missing_resume,
                      conn, env>>

\* ------------------------------------------------------ handleAbortMessage
\* lines 9-17: up to the await of websocket.send(the tts stop message);
\* sent counts the messages handed to websocket.send
AbortMessage ==
    /\ conn.pc = "idle"
    /\ conn.aborts < MaxAborts
    /\ IF is_abort_blocked(conn.session_id)
       THEN conn' = [conn EXCEPT !.aborts = @ + 1, !.refused = @ + 1]
       ELSE conn' = [conn EXCEPT !.aborts = @ + 1, !.client_abort = TRUE,
                                 !.clear_queues = @ + 1, !.sent = @ + 1, !.pc = "send"]
    /\ UNCHANGED <<cfg, reg, mcp, call, _abort_blocked, _session_map, _prompt_mode_state,
                   _warned_missing_resume, env>>

\* lines 17-21: websocket.send returns, or raises
AbortSend ==
    /\ conn.pc = "send"
    /\ \E ok \in BOOLEAN :
          conn' = IF ok
                  THEN [conn EXCEPT !.pc = "idle", !.clearSpeakStatus = @ + 1]
                  ELSE [conn EXCEPT !.pc = "idle"]
    /\ UNCHANGED <<cfg, reg, mcp, call, _abort_blocked, _session_map, _prompt_mode_state,
                   _warned_missing_resume, env>>

\* ------------------------------------------------------------------- Next
Respond ==
    \/ \E c \in Calls : Resolve(c)
    \/ \E c \in Calls : Popen(c)
    \/ \E c \in Calls, name \in Streams : ReaderPut(c, name)
    \/ \E c \in Calls, name \in Streams : ReaderEof(c, name)
    \/ \E c \in Calls : GetItem(c)
    \/ \E c \in Calls : Block(c)
    \/ \E c \in Calls : Emit(c)
    \/ \E c \in Calls : Resume(c)
    \/ \E c \in Calls : Close(c)
    \/ \E c \in Calls : Finish(c)

\* one respond call, a child that writes every kind of line
Next == Respond

Spec == Init /\ [][Next]_vars

\* overlapping respond calls
ConcConfig == Config("first_full_then_last", TRUE, TRUE, 0, FALSE, "log")

InitConc ==
    /\ InitState
    /\ reg = InitReg
    /\ mcp = InitMcp
    /\ cfg = ConcConfig
    /\ env = [calls |-> MaxCalls, overlap |-> TRUE, clock |-> 0,
              lines |-> [stdout |-> FewStdoutLines, stderr |-> FewStderrLines],
              left |-> [stdout |-> ConcStdoutLines, stderr |-> ConcStderrLines]]

NextConc == Respond

SpecConc == InitConc /\ [][NextConc]_vars

\* one respond call and the abort handler of its connection
InitAbort ==
    /\ InitState
    /\ reg = InitReg
    /\ mcp = InitMcp
    /\ cfg = ConcConfig
    /\ env = [calls |-> 1, overlap |-> FALSE, clock |-> 0,
              lines |-> [stdout |-> FewStdoutLines, stderr |-> FewStderrLines],
              left |-> [stdout |-> ConcStdoutLines, stderr |-> ConcStderrLines]]

NextAbort ==
    \/ Respond
    \/ AbortMessage
    \/ AbortSend

SpecAbort == InitAbort /\ [][NextAbort]_vars

\* successive respond calls (turns), a child that names its session
TurnStdoutLines == 2
TurnStderrLines == 1

InitTurns ==
    /\ InitState
    /\ reg = InitReg
    /\ mcp = InitMcp
    /\ cfg \in Configs
    /\ env = [calls |-> MaxCalls, overlap |-> FALSE, clock |-> 0,
              lines |-> [stdout |-> {L_msg}, stderr |-> {E_sess}],
              left |-> [stdout |-> TurnStdoutLines, stderr |-> TurnStderrLines]]

NextTurns == Respond

SpecTurns == InitTurns /\ [][NextTurns]_vars

\* the command builder on every base argument list of up to MaxArgs tokens
MaxArgs == 3

ArgTokens == {"exec", "e", "resume", "--json", "-", "-m"}

ArgLists == UNION {[1..n -> ArgTokens] : n \in 0..MaxArgs}

\* the adapter has no handle for the session, or has kept one from an earlier turn
InitBuild ==
    /\ call = [c \in Calls |-> InitCall]
    /\ _abort_blocked = {}
    /\ _session_map \in [SessionIds \ {""} -> {NoneVal, U1}]
    /\ _prompt_mode_state = {}
    /\ _warned_missing_resume = FALSE
    /\ conn = InitConn
    /\ reg = InitReg
    /\ mcp = InitMcp
    /\ \E args \in ArgLists, prompt_via_stdin \in BOOLEAN :
          cfg = [ConcConfig EXCEPT !.args = args, !.prompt_via_stdin = prompt_via_stdin]
    /\ env = [calls |-> MaxCalls, overlap |-> TRUE, clock |-> 0,
              lines |-> [stdout |-> {}, stderr |-> {}],
              left |-> [stdout |-> 0, stderr |-> 0]]

NextBuild == \E c \in Calls : Resolve(c)

SpecBuild == InitBuild /\ [][NextBuild]_vars

\* ------------------------------ response() with a child that may be stuck
\* lines 384-386: queue.get(timeout=0.1) finds the queue empty and raises Empty
QueueEmpty(c) ==
    LET f == call[c]
    IN /\ f.pc = "loop"
       /\ ~(f.stdout_done /\ f.stderr_done)
       /\ f.queue = <<>>
       /\ call' = [call EXCEPT ![c] = [f EXCEPT !.pc = "l387"]]
       /\ UNCHANGED <<cfg, reg, mcp, _abort_blocked, _session_map, _prompt_mode_state,
                      _warned_missing_resume, conn, env>>

\* lines 387-389: the break needs stdout_done and stderr_done, which the loop
\* condition has just found not to hold both; the loop continues
PollContinue(c) ==
    LET f == call[c]
    IN /\ f.pc = "l387"
       /\ call' = [call EXCEPT ![c] = [f EXCEPT !.pc = "loop"]]
       /\ UNCHANGED <<cfg, reg, mcp, _abort_blocked, _session_map, _prompt_mode_state,
                      _warned_missing_resume, conn, env>>

\* line 365 for a stream the child closes
StreamCloses(c, name) == name \notin env.stuck /\ ReaderEof(c, name)

\* the child leaves any of its two streams open for ever
InitLive ==
    /\ InitState
    /\ reg = InitReg
    /\ mcp = InitMcp
    /\ cfg = ConcConfig
    /\ \E stuck \in SUBSET Streams :
          env = [calls |-> 1, overlap |-> FALSE, clock |-> 0,
                 lines |-> [stdout |-> FewStdoutLines, stderr |-> FewStderrLines],
                 left |-> [stdout |-> ConcStdoutLines, stderr |-> ConcStderrLines],
                 stuck |-> stuck]

\* the caller asks for every fragment and never closes the sequence
NextLive ==
    \/ \E c \in Calls : Resolve(c)
    \/ \E c \in Calls : Popen(c)
    \/ \E c \in Calls, name \in Streams : ReaderPut(c, name)
    \/ \E c \in Calls, name \in Streams : StreamCloses(c, name)
    \/ \E c \in Calls : GetItem(c)
    \/ \E c \in Calls : QueueEmpty(c)
    \/ \E c \in Calls : PollContinue(c)
    \/ \E c \in Calls : Block(c)
    \/ \E c \in Calls : Emit(c)
    \/ \E c \in Calls : Resume(c)
    \/ \E c \in Calls : Finish(c)

\* every thread is scheduled: the control loop, the caller and the readers of
\* the streams that close take their steps
FairLive ==
    \A c \in Calls :
        /\ WF_vars(Popen(c))
        /\ WF_vars(GetItem(c))
        /\ WF_vars(QueueEmpty(c))
        /\ WF_vars(PollContinue(c))
        /\ WF_vars(Block(c))
        /\ WF_vars(Emit(c))
        /\ WF_vars(Resume(c))
        /\ WF_vars(Finish(c))
        /\ \A name \in Streams : WF_vars(StreamCloses(c, name))

SpecLive == InitLive /\ [][NextLive]_vars /\ FairLive

\* ------------------- response(): the missing-resume warning, step by step
\* line 123: the condition under which the warning is logged
WarningDue ==
    /\ cfg.prompt_mode = "first_full_then_last"
    /\ ~cfg.resume_session
    /\ ~_warned_missing_resume

\* lines 320, 121-123: the call starts and finds the warning due; nothing is
\* written yet
CheckWarned(c) ==
    /\ call[c].pc = "idle"
    /\ env.calls > 0
    /\ \A d \in Calls : d < c => call[d].pc # "idle"
    /\ env.overlap \/ \A d \in Calls : call[d].pc \in {"idle", "done"}
    /\ WarningDue
    /\ env' = [env EXCEPT !.calls = @ - 1]
    /\ \E session_id \in SessionIds :
          call' = [d \in Calls |->
              IF d = c
              THEN [call[c] EXCEPT !.pc = "l124", !.session_id = session_id,
                                   !.overlapped = Shared(session_id)]
              ELSE IF InFlight(d) /\ call[d].session_id = session_id
              THEN [call[d] EXCEPT !.overlapped = TRUE]
              ELSE call[d]]
    /\ UNCHANGED <<cfg, reg, mcp, _abort_blocked, _session_map, _prompt_mode_state,
                   _warned_missing_resume, conn>>

\* lines 124-134, 321-323: the warning is logged and the flag set, whatever
\* the flag has become since line 123; then the mode and the handle are
\* resolved
WarnMissingResume(c) ==
    LET f == call[c]
    IN /\ f.pc = "l124"
       /\ _warned_missing_resume' = TRUE
       /\ \E prompt \in Prompts :
             LET m == _get_effective_prompt_mode(f.session_id)
                 resume_id == IF cfg.resume_session THEN _get_resume_id(f.session_id)
                              ELSE NoneVal
             IN call' = [call EXCEPT ![c] =
                    [f EXCEPT !.pc = "popen", !.effective_prompt_mode = m[1],
                              !.resume_id = resume_id,
                              !.command = Command(resume_id, prompt),
                              !.warnings = 1]]
       /\ UNCHANGED <<cfg, reg, mcp, _abort_blocked, _session_map, _prompt_mode_state,
                      conn, env>>

\* line 123 finds no warning due: the start of the call writes nothing shared
ResolveUnwarned(c) == ~WarningDue /\ Resolve(c)

WarnStdoutLines == 1
WarnStderrLines == 1

\* overlapping respond calls on an adapter that cannot resume
WarnConfig == Config("first_full_then_last", FALSE, TRUE, 0, FALSE, "log")

InitWarn ==
    /\ InitState
    /\ reg = InitReg
    /\ mcp = InitMcp
    /\ cfg = WarnConfig
    /\ env = [calls |-> MaxCalls, overlap |-> TRUE, clock |-> 0,
              lines |-> [stdout |-> FewStdoutLines, stderr |-> FewStderrLines],
              left |-> [stdout |-> WarnStdoutLines, stderr |-> WarnStderrLines]]

NextWarn ==
    \/ \E c \in Calls : CheckWarned(c)
    \/ \E c \in Calls : WarnMissingResume(c)
    \/ \E c \in Calls : ResolveUnwarned(c)
    \/ \E c \in Calls : Popen(c)
    \/ \E c \in Calls, name \in Streams : ReaderPut(c, name)
    \/ \E c \in Calls, name \in Streams : ReaderEof(c, name)
    \/ \E c \in Calls : GetItem(c)
    \/ \E c \in Calls : Block(c)
    \/ \E c \in Calls : Emit(c)
    \/ \E c \in Calls : Resume(c)
    \/ \E c \in Calls : Close(c)
    \/ \E c \in Calls : Finish(c)

SpecWarn == InitWarn /\ [][NextWarn]_vars

\* ------------------------------------------- llm_runtime under its callers
\* a thread calls one of the four functions; `if not session_id: return`
\* (lines 8-9, 15-16, 22-23) ends the call before the lock is taken
RegCall(t) ==
    /\ reg.thread[t].pc = "idle"
    /\ reg.left > 0
    /\ \E op \in RegOps, session_id \in RegSessions :
          reg' = [reg EXCEPT !.left = @ - 1,
                             !.thread[t] = [pc |-> IF session_id = "" THEN "idle" ELSE "locked",
                                            op |-> op, session_id |-> session_id,
                                            result |-> FALSE]]
    /\ UNCHANGED <<cfg, call, _abort_blocked, _session_map, _prompt_mode_state,
                   _warned_missing_resume, conn, env, mcp>>

\* lines 10-11, 17-18, 24-25, 29: the body under _lock
RegLocked(t) ==
    LET th == reg.thread[t]
    IN /\ th.pc = "locked"
       /\ _abort_blocked' =
              IF th.op = "block_abort" THEN block_abort(_abort_blocked, th.session_id)
              ELSE IF th.op = "unblock_abort" THEN unblock_abort(_abort_blocked, th.session_id)
              ELSE IF th.op = "clear_session" THEN clear_session(_abort_blocked, th.session_id)
              ELSE _abort_blocked
       /\ reg' = [reg EXCEPT !.thread[t].pc = "idle",
                             !.thread[t].result = IF th.op = "is_abort_blocked"
                                                  THEN is_abort_blocked(th.session_id)
                                                  ELSE FALSE,
                             !.last[th.session_id] = IF th.op = "is_abort_blocked"
                                                     THEN @ ELSE th.op]
       /\ UNCHANGED <<cfg, call, _session_map, _prompt_mode_state,
                      _warned_missing_resume, conn, env, mcp>>

InitRegistry ==
    /\ InitState
    /\ reg = [InitReg EXCEPT !.left = MaxOps]
    /\ mcp = InitMcp
    /\ cfg = ConcConfig
    /\ env = [calls |-> 0, overlap |-> FALSE, clock |-> 0,
              lines |-> [stdout |-> {}, stderr |-> {}],
              left |-> [stdout |-> 0, stderr |-> 0]]

NextRegistry ==
    \/ \E t \in RegThreads : RegCall(t)
    \/ \E t \in RegThreads : RegLocked(t)

SpecRegistry == InitRegistry /\ [][NextRegistry]_vars

\* ------------------------------------- codex_mcp_server.py: _ensure_client
\* core/providers/tools/server_mcp/mcp_client.py is not among the sources:
\* client.initialize() returns or raises; _LoopRunner.run (lines 24-26) raises
\* TimeoutError when it has not ended within init_timeout, and leaves the
\* coroutine running on the loop
run_initialize == {"returns", "raises", "TimeoutError"}

\* lines 202, 69-70: the check outside the lock
McpCheck(t) ==
    /\ mcp.task[t].pc = "idle"
    /\ mcp' = IF mcp._client # 0
              THEN [mcp EXCEPT !.task[t].pc = "have", !.task[t].got = mcp._client]
              ELSE [mcp EXCEPT !.task[t].pc = "wait"]
    /\ UNCHANGED <<cfg, call, _abort_blocked, _session_map, _prompt_mode_state,
                   _warned_missing_resume, conn, env, reg>>

\* line 71: with self._client_lock
McpAcquire(t) ==
    /\ mcp.task[t].pc = "wait"
    /\ mcp._client_lock = 0
    /\ mcp' = [mcp EXCEPT !._client_lock = t, !.task[t].pc = "locked"]
    /\ UNCHANGED <<cfg, call, _abort_blocked, _session_map, _prompt_mode_state,
                   _warned_missing_resume, conn, env, reg>>

\* lines 72-80: the check under the lock; a client is made and its
\* initialize() is started on the loop
McpEnter(t) ==
    /\ mcp.task[t].pc = "locked"
    /\ mcp' = IF mcp._client # 0
              THEN [mcp EXCEPT !._client_lock = 0, !.task[t].pc = "have",
                               !.task[t].got = mcp._client]
              ELSE [mcp EXCEPT !._loop_runner = TRUE,
                               !.created = @ + 1,
                               !.initializing = @ \cup {mcp.created + 1},
                               !.task[t].client = mcp.created + 1,
                               !.task[t].pc = "init"]
    /\ UNCHANGED <<cfg, call, _abort_blocked, _session_map, _prompt_mode_state,
                   _warned_missing_resume, conn, env, reg>>

\* lines 80-82, 203-206: run() returns and the client is kept, or run() raises,
\* the lock is released and response() yields its error fragment
McpRun(t) ==
    LET client == mcp.task[t].client
    IN /\ mcp.task[t].pc = "init"
       /\ \E r \in run_initialize :
             mcp' = IF r = "returns"
                    THEN [mcp EXCEPT !.initializing = @ \ {client},
                                     !.initialized = @ \cup {client},
                                     !._client = client, !._client_lock = 0,
                                     !.task[t].pc = "have", !.task[t].got = client]
                    ELSE IF r = "raises"
                    THEN [mcp EXCEPT !.initializing = @ \ {client}, !._client_lock = 0,
                                     !.task[t].pc = "failed"]
                    ELSE [mcp EXCEPT !._client_lock = 0, !.task[t].pc = "failed"]
       /\ UNCHANGED <<cfg, call, _abort_blocked, _session_map, _prompt_mode_state,
                      _warned_missing_resume, conn, env, reg>>

\* an initialize() that run() gave up on ends on the loop
McpInitializeEnds(client) ==
    /\ client \in mcp.initializing
    /\ \A t \in McpCalls : ~(mcp.task[t].pc = "init" /\ mcp.task[t].client = client)
    /\ \E ok \in BOOLEAN :
          mcp' = [mcp EXCEPT !.initializing = @ \ {client},
                             !.initialized = IF ok THEN @ \cup {client} ELSE @]
    /\ UNCHANGED <<cfg, call, _abort_blocked, _session_map, _prompt_mode_state,
                   _warned_missing_resume, conn, env, reg>>

InitMcpCalls ==
    /\ InitState
    /\ reg = InitReg
    /\ mcp = InitMcp
    /\ cfg = ConcConfig
    /\ env = [calls |-> 0, overlap |-> FALSE, clock |-> 0,
              lines |-> [stdout |-> {}, stderr |-> {}],
              left |-> [stdout |-> 0, stderr |-> 0]]

NextMcp ==
    \/ \E t \in McpCalls : McpCheck(t)
    \/ \E t \in McpCalls : McpAcquire(t)
    \/ \E t \in McpCalls : McpEnter(t)
    \/ \E t \in McpCalls : McpRun(t)
    \/ \E client \in McpCalls : McpInitializeEnds(client)

SpecMcp == InitMcpCalls /\ [][NextMcp]_vars

\* ================================================================ claims
FlagSet(session_id) == session_id \in _abort_blocked

HasContent(f) == \E i \in 1..Len(f.out) : f.out[i].site \in ContentSites

HasStderrStatus(f) == \E i \in 1..Len(f.out) : f.out[i].site = "y426"

\* no other call in flight is for the session of call c
Alone(c) ==
    \A d \in Calls \ {c} : ~(InFlight(d) /\ call[d].session_id = call[c].session_id)

\* the call ran to the end of response(): no exception, not closed by the caller
Completed(f) == f.pc = "done" /\ f.spawned /\ ~f.raised /\ ~f.closed

\* C1: with one respond call in flight for a session, is_abort_blocked(session)
\* is false from the yield of the call's first content chunk until the call
\* ends, and the call does not call block_abort again once content has flowed.
C1_FlagClearWhileContentFlows ==
    /\ [](\A c \in Calls :
            InFlight(c) /\ HasContent(call[c]) /\ Alone(c)
                => ~FlagSet(call[c].session_id))
    /\ [][\A c \in Calls :
            HasContent(call[c]) => call'[c].n_block = call[c].n_block]_vars

\* a call that set the flag is suspended at a content chunk, alone on its session
C1_Witness ==
    \E c \in Calls :
        /\ call[c].pc = "yield" /\ HasContent(call[c]) /\ Alone(c)
        /\ call[c].n_block > 0 /\ call[c].session_id = "s1"

\* C2: once a respond call has ended (normal completion, spawn failure, an
\* exception in the loop, the caller closing the sequence), is_abort_blocked
\* of its session is false while no other call for that session is in flight.
C2_FlagClearAfterEnd ==
    \A c \in Calls :
        call[c].pc = "done" /\ Alone(c) => ~FlagSet(call[c].session_id)

\* the caller closed the sequence of a call that held the block
C2_Witness ==
    \E c \in Calls :
        /\ call[c].pc = "done" /\ call[c].closed /\ call[c].abort_blocked
        /\ call[c].session_id = "s1" /\ Alone(c)

\* the call is at the yield of its first stderr status fragment
AtFirstStatus(c) ==
    /\ call[c].pc = "emit"
    /\ Head(call[c].pend).site = "y426"
    /\ ~HasStderrStatus(call[c])

\* the call called block_abort only to surface a stderr summary
BlocksOnlyToSurface(c) ==
    call[c].n_block > 0
        => \/ HasStderrStatus(call[c])
           \/ call[c].pc = "emit" /\ Head(call[c].pend).site = "y426"

\* C3 as stated: a call sets the flag only when it surfaces a stderr summary,
\* and the flag is true when its first status fragment is yielded.
C3_AsStated ==
    \A c \in Calls :
        /\ BlocksOnlyToSurface(c)
        /\ AtFirstStatus(c) => FlagSet(call[c].session_id)

\* C3 (amended): a call sets the flag only when it surfaces a stderr summary;
\* for a non-empty session id, and with no other call for the session in
\* flight at any time during the call, the flag is true when the call's first
\* stderr status fragment is yielded.
C3_FlagSetBeforeFirstStatus ==
    \A c \in Calls :
        /\ BlocksOnlyToSurface(c)
        /\ (AtFirstStatus(c) /\ call[c].session_id # "" /\ ~call[c].overlapped)
               => FlagSet(call[c].session_id)

\* a call for session s1 that never shared it is about to yield its first status
C3_Witness ==
    \E c \in Calls :
        AtFirstStatus(c) /\ call[c].session_id = "s1" /\ ~call[c].overlapped

\* C4: handleAbortMessage on a blocked session changes nothing of the
\* connection (client_abort, queues, speak status, messages sent); on a session
\* that is not blocked it sets client_abort, clears the queues and sends the
\* stop message, and the speak status is cleared only after a send.
C4_AbortHonoursBlock ==
    /\ [][conn'.aborts # conn.aborts =>
            IF conn.session_id \in _abort_blocked
            THEN /\ conn'.client_abort = conn.client_abort
                 /\ conn'.clear_queues = conn.clear_queues
                 /\ conn'.sent = conn.sent
                 /\ conn'.clearSpeakStatus = conn.clearSpeakStatus
                 /\ conn'.pc = "idle"
            ELSE /\ conn'.client_abort
                 /\ conn'.clear_queues = conn.clear_queues + 1
                 /\ conn'.sent = conn.sent + 1]_vars
    /\ [](conn.clearSpeakStatus <= conn.sent /\ conn.sent = conn.clear_queues)

\* one abort message was refused while the session was blocked, another honoured
C4_Witness == conn.refused = 1 /\ conn.sent = 1 /\ conn.clearSpeakStatus = 1

ExitFrags(f) == {i \in 1..Len(f.out) : f.out[i].site = "y449"}

\* C5: a call yields an exit-code fragment exactly when proc.wait() gave a
\* non-zero status and no content chunk was yielded; there is at most one such
\* fragment and nothing is yielded after it.
C5_ExitFragment ==
    \A c \in Calls :
        LET f == call[c]
        IN /\ Cardinality(ExitFrags(f)) <= 1
           /\ \A i \in ExitFrags(f) : i = Len(f.out)
           /\ f.exit_code = -1 => ExitFrags(f) = {}
           /\ f.exit_code # -1 =>
                  (ExitFrags(f) # {} <=> (f.exit_code # 0 /\ ~HasContent(f)))

\* a call ended with a status fragment and then the report of exit status 2
C5_Witness ==
    \E c \in Calls :
        /\ call[c].pc = "done" /\ call[c].exit_code = 2
        /\ Len(call[c].out) = 2 /\ call[c].out[1].site = "y426"
        /\ call[c].out[2] = ExitFragment(2)

\* C6: when the child cannot be started the call yields one diagnostic
\* fragment and nothing else, raises nothing, starts no reader, never sets the
\* abort-block flag and does not mark the session's prompt-mode state.
C6_SpawnFailure ==
    \A c \in Calls :
        (call[c].pc \in {"yield", "done"} /\ ~call[c].spawned) =>
            /\ Len(call[c].out) = 1
            /\ call[c].out[1].site \in {"y344", "y348"}
            /\ ~call[c].raised
            /\ call[c].reader = [stdout |-> "none", stderr |-> "none"]
            /\ call[c].n_block = 0
            /\ ~FlagSet(call[c].session_id)
            /\ call[c].session_id \notin _prompt_mode_state

\* the first turn of session s1 in mode first_full_then_last failed to start
\* and its sequence was consumed to the end
C6_Witness ==
    \E c \in Calls :
        /\ call[c].pc = "done" /\ ~call[c].spawned /\ ~call[c].closed
        /\ call[c].session_id = "s1"
        /\ cfg.prompt_mode = "first_full_then_last"
        /\ call[c].effective_prompt_mode = "full_dialogue"

\* C7 as stated: no exception escapes response() when the summarizer raises.
C7_NoExceptionEscapes == \A c \in Calls : ~call[c].raised

\* C8 as stated, for the calls that run to the end of response(): a call that
\* ends without a content chunk has yielded at least one fragment.
C8_AlwaysExplained ==
    \A c \in Calls :
        (Completed(call[c]) /\ ~HasContent(call[c])) => call[c].out # <<>>

\* <<idx, text>> of the non-empty chunks of lines[i..], in order
RECURSIVE ChunksFrom(_, _)
ChunksFrom(lines, i) ==
    IF i > Len(lines) THEN <<>>
    ELSE LET chunks == SelectSeq(_extract_text_chunks(_parse_event(lines[i])), NonEmpty)
         IN [k \in 1..Len(chunks) |-> <<i, chunks[k]>>] \o ChunksFrom(lines, i + 1)

IsContentFrag(fr) == fr.site \in ContentSites

\* <<idx, text>> of the content chunks yielded, in order
ContentYielded(f) ==
    LET cs == SelectSeq(f.out, IsContentFrag)
    IN [k \in 1..Len(cs) |-> <<cs[k].idx, cs[k].text>>]

\* C9: in a call that runs to normal completion the content chunks yielded are
\* the non-empty fragments of the stdout lines in the order the reader read
\* them, and the stderr status fragments follow the order of their lines.
C9_OrderPreserved ==
    \A c \in Calls :
        Completed(call[c]) =>
            /\ ContentYielded(call[c]) = ChunksFrom(call[c].read.stdout, 1)
            /\ \A i, j \in 1..Len(call[c].out) :
                   (i < j /\ call[c].out[i].site = "y426" /\ call[c].out[j].site = "y426")
                       => call[c].out[i].idx < call[c].out[j].idx
            /\ \A i \in 1..Len(call[c].out) :
                   call[c].out[i].site = "y426"
                       => call[c].out[i].idx \in 1..Len(call[c].read.stderr)

\* two status fragments, then the three chunks of two stdout lines
C9_Witness ==
    \E c \in Calls :
        /\ Completed(call[c])
        /\ Len(call[c].out) = 5
        /\ call[c].out[1].site = "y426" /\ call[c].out[2].site = "y426"
        /\ ContentYielded(call[c]) = <<<<1, <<"Hel">>>>, <<2, <<"lo">>>>, <<2, <<"!">>>>>>

\* the loop takes a stderr line from the queue after content has started
LateStderrStep(c) ==
    /\ call[c].pc = "loop"
    /\ call[c].stdout_started
    /\ call[c].queue # <<>>
    /\ Head(call[c].queue).name = "stderr"
    /\ ~Head(call[c].queue).eof
    /\ call'[c].queue = Tail(call[c].queue)

\* C10: no stderr status fragment follows a content chunk, a stderr line gives
\* only stderr status fragments, and a stderr line processed after content has
\* started yields nothing and leaves the registry alone.
C10_StderrGatedByContent ==
    /\ [](\A c \in Calls : \A i, j \in 1..Len(call[c].out) :
            /\ (i < j /\ call[c].out[i].site \in ContentSites)
                   => call[c].out[j].site # "y426"
            /\ call[c].out[i].name = "stderr" <=> call[c].out[i].site = "y426")
    /\ [][\A c \in Calls :
            LateStderrStep(c) =>
                /\ call'[c].out = call[c].out
                /\ call'[c].pend = <<>>
                /\ call'[c].pc = "loop"
                /\ _abort_blocked' = _abort_blocked]_vars

\* a status fragment, then content, then a stderr line that was dropped
C10_Witness ==
    \E c \in Calls :
        /\ call[c].late = 1
        /\ HasStderrStatus(call[c])
        /\ HasContent(call[c])
        /\ call[c].pc = "done"

\* the step in which call c starts: lines 320-325
Starts(c) == call[c].pc = "idle" /\ call'[c].pc = "popen"

\* C11: in mode first_full_then_last with resumption enabled and a non-empty
\* session id, a turn's effective mode is full_dialogue exactly when the
\* session's prompt-mode state is unset when the turn starts, last_user
\* otherwise; the prompt-mode state of a session is never cleared.
C11_ModeFollowsPromptState ==
    /\ [][\A c \in Calls :
            (/\ Starts(c)
             /\ cfg.prompt_mode = "first_full_then_last"
             /\ cfg.resume_session
             /\ call'[c].session_id # "")
                => call'[c].effective_prompt_mode =
                       IF call'[c].session_id \in _prompt_mode_state
                       THEN "last_user" ELSE "full_dialogue"]_vars
    /\ [][_prompt_mode_state \subseteq _prompt_mode_state']_vars

\* a later turn of session s1 runs in mode last_user after a first turn in
\* full_dialogue
C11_Witness ==
    \E c, d \in Calls :
        /\ call[c].session_id = "s1" /\ call[c].effective_prompt_mode = "full_dialogue"
        /\ call[d].session_id = "s1" /\ call[d].effective_prompt_mode = "last_user"

\* the turn ran to the end of response() and gave content or exit status 0
Succeeded(f) == Completed(f) /\ ~(f.exit_code # 0 /\ ~HasContent(f))

\* C12 as stated: a session's prompt-mode state is set only once a turn of the
\* session that used full_dialogue has completed successfully.
C12_SentOnlyAfterSuccess ==
    \A session_id \in _prompt_mode_state :
        \E c \in Calls :
            /\ call[c].session_id = session_id
            /\ call[c].effective_prompt_mode = "full_dialogue"
            /\ Succeeded(call[c])

\* C13 as stated: in mode first_full_then_last with resumption disabled every
\* turn of every session uses full_dialogue.
C13_FullDialogueWithoutResume ==
    \A c \in Calls :
        (/\ call[c].pc # "idle"
         /\ cfg.prompt_mode = "first_full_then_last"
         /\ ~cfg.resume_session)
            => call[c].effective_prompt_mode = "full_dialogue"

\* the identifier of the line a fragment comes from
FragId(f, fr) == _extract_session_id(_parse_event(f.read[fr.name][fr.idx]))

\* the loop takes a line from the queue
LineStep(c) ==
    /\ call[c].pc = "loop"
    /\ call[c].queue # <<>>
    /\ ~Head(call[c].queue).eof
    /\ call'[c].queue = Tail(call[c].queue)

\* C14: for a call with a non-empty session id, processing a line stores the
\* identifier extracted from its event as the session's resume handle (the
\* last write wins) and leaves the handle alone when there is none; the handle
\* is the line's identifier whenever a fragment of that line is about to be
\* yielded or has just been yielded.
C14_HandleStoredBeforeYield ==
    /\ [](\A c \in Calls :
            LET f == call[c]
                fr == IF f.pc = "emit" THEN Head(f.pend) ELSE f.out[Len(f.out)]
            IN (/\ f.session_id # ""
                /\ \/ f.pc = "emit"
                   \/ f.pc = "yield" /\ LastSite(f) \in {"y426", "y432", "y444"}
                /\ FragId(f, fr) # NoneVal)
                   => _session_map[f.session_id] = FragId(f, fr))
    /\ [][\A c \in Calls :
            (LineStep(c) /\ call[c].session_id # "")
                => LET id == _extract_session_id(_parse_event(Head(call[c].queue).line))
                   IN _session_map'[call[c].session_id] =
                          IF id # NoneVal THEN id ELSE _session_map[call[c].session_id]]_vars

\* a stderr line naming one session was surfaced, then a stdout line naming
\* another gave content: the handle is the later one
C14_Witness ==
    \E c \in Calls :
        LET f == call[c]
        IN /\ f.pc = "yield" /\ f.session_id = "s1"
           /\ Len(f.out) >= 2
           /\ f.out[1].site = "y426" /\ FragId(f, f.out[1]) = U2
           /\ LastSite(f) = "y444" /\ FragId(f, f.out[Len(f.out)]) = U1
           /\ _session_map["s1"] = U1

\* the command is a resume of handle H
IsResumeOf(command, H) ==
    Len(command) >= 4 /\ SubSeq(command, 1, 4) = <<cfg.command, "exec", "resume", H>>

\* C15: a call launches its child as a resume of H exactly when resumption is
\* enabled and H is the handle stored for its session when the call starts;
\* otherwise the command holds neither a resume token nor a handle.
C15_ResumeIffHandleStored ==
    [][\A c \in Calls :
          Starts(c) =>
              LET f == call'[c]
                  H == IF f.session_id = "" THEN NoneVal ELSE _session_map[f.session_id]
              IN IF cfg.resume_session /\ H # NoneVal
                 THEN IsResumeOf(f.command, H)
                 ELSE /\ ~Contains(f.command, "resume")
                      /\ \A i \in 1..Len(f.command) : f.command[i] \notin UuidTokens]_vars

\* the second turn of session s1 is launched as a resume of the handle the
\* first turn's child named
C15_Witness ==
    \E c \in Calls :
        /\ cfg.resume_session
        /\ call[c].session_id = "s1"
        /\ IsResumeOf(call[c].command, U1)

Count(args, tok) == Cardinality({i \in 1..Len(args) : args[i] = tok})

\* C16 as stated: with no resume handle the built command holds --json exactly
\* once and, when the prompt goes to stdin, the stdin marker exactly once.
C16_FlagsExactlyOnce ==
    \A c \in Calls :
        (call[c].pc # "idle" /\ call[c].resume_id = NoneVal) =>
            /\ Count(_build_command(NoneVal), "--json") = 1
            /\ cfg.prompt_via_stdin => Count(_build_command(NoneVal), "-") = 1

\* C17: with a resume handle H the built command starts with
\* [binary, exec, resume, H], the rest holds no exec, resume or e token, exec
\* and resume occur once each, and the stdin marker occurs once when the prompt
\* goes to stdin and not at all otherwise.
C17_ResumeCommand ==
    \A c \in Calls :
        (call[c].pc # "idle" /\ call[c].resume_id # NoneVal) =>
            LET built == _build_command(call[c].resume_id)
                rest == SubSeq(built, 5, Len(built))
            IN /\ IsResumeOf(built, call[c].resume_id)
               /\ SubSeq(call[c].command, 1, Len(built)) = built
               /\ \A tok \in {"exec", "resume", "e"} : ~Contains(rest, tok)
               /\ Count(built, "exec") = 1
               /\ Count(built, "resume") = 1
               /\ Count(built, "-") = IF cfg.prompt_via_stdin THEN 1 ELSE 0

\* base arguments that hold a short alias, a resume token and a stdin marker
C17_Witness ==
    \E c \in Calls :
        /\ call[c].resume_id = U1
        /\ cfg.args = <<"e", "resume", "-">>
        /\ cfg.prompt_via_stdin
        /\ call[c].command = <<"codex", "exec", "resume", U1, "--json", "-">>

\* a thread's body under the lock runs
RegApplies(t) == reg.thread[t].pc = "locked" /\ reg'.thread[t].pc = "idle"

\* C18: is_abort_blocked(s) is true exactly when the last block, unblock or
\* clear applied to s was a block; an operation on s leaves every other
\* session's flag as it was; unblock, clear and the read leave a registry that
\* does not hold s unchanged; a call with an empty session id changes nothing
\* and reads as false.
C18_RegistryFollowsLastOperation ==
    /\ [](\A s \in RegSessions :
            is_abort_blocked(s) <=> (s # "" /\ reg.last[s] = "block_abort"))
    /\ [](\A t \in RegThreads : reg.thread[t].session_id = "" => ~reg.thread[t].result)
    /\ [][\A t \in RegThreads :
            RegApplies(t) =>
                LET th == reg.thread[t]
                IN /\ \A s \in RegSessions \ {th.session_id} :
                          (s \in _abort_blocked') <=> (s \in _abort_blocked)
                   /\ (th.op # "block_abort" /\ th.session_id \notin _abort_blocked)
                          => _abort_blocked' = _abort_blocked]_vars
    /\ [][reg'.left < reg.left => _abort_blocked' = _abort_blocked]_vars

\* s2 is blocked, s1 was unblocked, and a thread's last call had an empty id
C18_Witness ==
    /\ reg.last["s1"] = "unblock_abort"
    /\ reg.last["s2"] = "block_abort"
    /\ _abort_blocked = {"s2"}
    /\ \E t \in RegThreads :
          /\ reg.thread[t].op = "is_abort_blocked"
          /\ reg.thread[t].session_id = ""
          /\ reg.thread[t].pc = "idle"

\* C20 as stated: at most one initialization runs at a time, every call that
\* has a client has the one that is kept, and no client is kept unless its
\* initialization succeeded.
C20_SingleInitialization ==
    /\ Cardinality(mcp.initializing) <= 1
    /\ \A t \in McpCalls :
          mcp.task[t].pc = "have" => mcp.task[t].got = mcp._client /\ mcp._client # 0
    /\ mcp._client # 0 => mcp._client \in mcp.initialized

\* C19 as stated: with the caller consuming every fragment, every call that
\* has started ends its sequence, whatever the child does.
C19_EveryCallEnds ==
    \A c \in Calls : (call[c].pc = "popen") ~> (call[c].pc = "done")

\* the next queue.get of call c hands a stderr line to the summarizer
AtGate(c) ==
    LET f == call[c]
    IN /\ f.pc = "loop"
       /\ ~(f.stdout_done /\ f.stderr_done)
       /\ f.queue # <<>>
       /\ ~Head(f.queue).eof
       /\ Head(f.queue).name = "stderr"
       /\ ~GateClosed(f)
       /\ _event_to_text(_parse_event(Head(f.queue).line)) # <<>>

\* the summaries the summarizer may give for the line at the gate, stripped
GateSummaries(c) ==
    {Strip(o.summary) :
        o \in {x \in summarize(_event_to_text(_parse_event(Head(call[c].queue).line))) :
                  ~x.raises /\ Strip(x.summary) # <<>>}}

\* the call has surfaced no summary yet
NoneSurfaced(f) == \A i \in 1..Len(f.out) : f.out[i].site # "y426"

\* C21: a non-empty summary produced before content has started is surfaced
\* if and only if the minimum interval is not positive, or none has been
\* surfaced by the call yet, or the minimum interval has elapsed since the
\* last surfaced one, and its text differs from the last surfaced summary.
C21_SurfacedIffDebounce ==
    \A c \in Calls :
        AtGate(c) =>
            LET f == call[c]
            IN \A summary \in GateSummaries(c), now \in f.last_summary_time..env.clock :
                  Surfaced(f, [raises |-> FALSE, summary |-> summary], now)
                  <=> /\ \/ cfg.stderr_summary_min_interval <= 0
                         \/ NoneSurfaced(f)
                         \/ now - f.last_summary_time >= cfg.stderr_summary_min_interval
                      /\ summary # f.last_summary

\* the loop of call c ends normally in this step: proc.wait() (line 446) returns
LoopEnds(c) == call[c].exit_code = -1 /\ call'[c].exit_code # -1

\* both sentinels have been taken, and with them everything the readers queued
Drained(f) ==
    /\ f.stdout_done /\ f.stderr_done
    /\ \A name \in Streams : f.reader[name] = "done"
    /\ f.queue = <<>>

\* C22: when the child is spawned, both its streams close and the caller goes
\* on consuming, the call ends; and the loop ends normally only after the
\* sentinels of both streams have been taken from the queue, every queued
\* line having been taken before them.
C22_DrainsThenEnds ==
    /\ \A c \in Calls : (call[c].spawned /\ env.stuck = {}) ~> (call[c].pc = "done")
    /\ [][\A c \in Calls : LoopEnds(c) => Drained(call[c])]_vars

\* a call whose child wrote on both streams has drained them and ended
C22_Witness ==
    \E c \in Calls :
        /\ env.stuck = {}
        /\ call[c].pc = "done"
        /\ call[c].exit_code # -1
        /\ Drained(call[c])
        /\ call[c].read["stdout"] # <<>>
        /\ call[c].read["stderr"] # <<>>

\* the calls that logged the missing-resume warning
Warners == {c \in Calls : call[c].warnings > 0}

\* C23: with first_full_then_last and resumption disabled, the missing-resume
\* warning is logged at most once by an adapter, whatever the sessions and
\* however its respond calls interleave.
C23_WarnsAtMostOnce ==
    (cfg.prompt_mode = "first_full_then_last" /\ ~cfg.resume_session)
        => Cardinality(Warners) <= 1

\* calls c and d are both in flight for one session that has an id
InFlightTogether(c, d) ==
    /\ c # d
    /\ InFlight(c) /\ InFlight(d)
    /\ call[c].session_id = call[d].session_id
    /\ call[c].session_id # ""

\* C24: while two respond calls of one session are in flight, the flag of the
\* session is set whenever one of them has surfaced a stderr status fragment
\* and has not yielded content, and clear whenever one of them has yielded
\* content.
C24_FlagUnderSharedSession ==
    \A c, d \in Calls :
        InFlightTogether(c, d) =>
            /\ (HasStderrStatus(call[c]) /\ ~HasContent(call[c]))
                   => is_abort_blocked(call[c].session_id)
            /\ HasContent(call[c]) => ~is_abort_blocked(call[c].session_id)

\* C25: with first_full_then_last and resumption enabled, a turn whose
\* effective mode is last_user starts with a resume handle stored for its
\* session and is launched as a resume of that handle, never as a fresh child.
C25_LastUserMeansResume ==
    [][\A c \in Calls :
          (/\ Starts(c)
           /\ cfg.prompt_mode = "first_full_then_last"
           /\ cfg.resume_session
           /\ call'[c].effective_prompt_mode = "last_user")
              => /\ _session_map[call'[c].session_id] # NoneVal
                 /\ IsResumeOf(call'[c].command, _session_map[call'[c].session_id])]_vars

=============================================================================
